---------------------------- MODULE Spec2Model ----------------------------
(***************************************************************************)
(* LoRaWAN gateway monitors of badlabs-ca/LoraWan.                         *)
(*                                                                         *)
(* Four scripts read gateway output line by line:                          *)
(*   dl  : decrypt_lora.py          (monitor_gateway_output)               *)
(*   rak : rak_signal_monitor.py    (LoRaSignalMonitor.monitor)            *)
(*   v4  : v4_lorawan_monitor.py    (V4LoRaWANMonitor.monitor)             *)
(*   raw : Old/raw_lora_capture.py  (RawLoRaCapture.monitor)               *)
(* Each line is classified, its frame parsed, filtered, decrypted and      *)
(* decoded into telemetry.  Bytes are integers 0..255, Python's None is    *)
(* the record None (frames, records) or the integer NoneVal (port, ToF).   *)
(* Python sequences are 0-based; the operators At and PySlice keep the     *)
(* source's indices.                                                       *)
(***************************************************************************)
EXTENDS Integers, Sequences, FiniteSets, TLC

(***************************************************************************)
(* Python values                                                           *)
(***************************************************************************)
NoneVal == 0 - 1

\* the None a parser or a classifier returns: a record with every key of the
\* dict it would have returned, none set
None ==
    [none |-> TRUE, mhdr |-> 0, msg_type |-> NoneVal, dev_addr |-> << >>,
     fctrl |-> 0, fcnt |-> 0, fport |-> NoneVal, payload_start |-> 0,
     packet_bytes |-> << >>]

IsNone(x) == x.none

Min(a, b) == IF a < b THEN a ELSE b

Max(a, b) == IF a > b THEN a ELSE b

\* s[i] of a Python bytes object, 0-based
At(s, i) == s[i + 1]

\* s[a:b] of a Python sequence, 0-based, b exclusive; a negative bound counts
\* from the end and both bounds are clamped to the sequence
PySlice(s, a, b) ==
    LET n  == Len(s)
        lo == IF a < 0 THEN Max(n + a, 0) ELSE Min(a, n)
        hi == IF b < 0 THEN Max(n + b, 0) ELSE Min(b, n)
    IN  IF lo >= hi THEN << >> ELSE SubSeq(s, lo + 1, hi)

\* s[::-1]
Reverse(s) == [i \in 1..Len(s) |-> s[Len(s) + 1 - i]]

\* b"\x00" * n
Zeros(n) == [i \in 1..n |-> 0]

\* int.from_bytes(b, 'big'): the empty slice is 0
RECURSIVE FromBytesBig(_)
FromBytesBig(b) ==
    IF Len(b) = 0 THEN 0
    ELSE 256 * FromBytesBig(SubSeq(b, 1, Len(b) - 1)) + b[Len(b)]

\* a faulty FromBytesLittle: the bytes are read in 'big' order
FromBytesLittle_big(b) == FromBytesBig(b)

\* int.from_bytes(b, 'little')
FromBytesLittle(b) == FromBytesBig(Reverse(b))

RECURSIVE Pow256(_)
Pow256(n) == IF n = 0 THEN 1 ELSE 256 * Pow256(n - 1)

\* int.from_bytes(b, 'big', signed=True): two's complement on 8*len(b) bits
FromBytesBigSigned(b) ==
    LET u == FromBytesBig(b)
    IN  IF Len(b) > 0 /\ 2 * u >= Pow256(Len(b)) THEN u - Pow256(Len(b)) ELSE u

(***************************************************************************)
(* base64: characters are the sextet values 0..63 of the standard          *)
(* alphabet, Pad for '=' and Junk for any other ASCII character.           *)
(***************************************************************************)
Pad == 64

Junk == 65

B64Error == [ok |-> FALSE, bytes |-> << >>]

IsData(ch) == ch < 64

NotJunk(ch) == ch <= Pad

\* how many of the first i - 1 characters of t are of the alphabet
DataBefore(t, i) == Cardinality({ j \in 1..(i - 1) : IsData(t[j]) })

\* the places of t where a '=' ends the input: a '=' read when 3
\* characters of a quad are held, or a second '=' in a row when 2 are held
Stops(t) ==
    { i \in 1..Len(t) :
        /\ t[i] = Pad
        /\ \/ DataBefore(t, i) % 4 = 3
           \/ DataBefore(t, i) % 4 = 2 /\ i > 1 /\ t[i - 1] = Pad }

Least(S) == CHOOSE i \in S : \A j \in S : i <= j

\* the bytes of the alphabet characters d: every 4 characters give 3 bytes,
\* a final quad of 2 gives 1 byte, of 3 gives 2 bytes
Quads(d) ==
    LET n == Len(d) IN
    [j \in 1..(3 * (n \div 4)
               + (IF n % 4 = 2 THEN 1 ELSE IF n % 4 = 3 THEN 2 ELSE 0)) |->
        CASE (j - 1) % 3 = 0 ->
               (d[4 * ((j - 1) \div 3) + 1] * 4
                + d[4 * ((j - 1) \div 3) + 2] \div 16) % 256
          [] (j - 1) % 3 = 1 ->
               (d[4 * ((j - 1) \div 3) + 2] * 16
                + d[4 * ((j - 1) \div 3) + 3] \div 4) % 256
          [] OTHER ->
               (d[4 * ((j - 1) \div 3) + 3] * 64
                + d[4 * ((j - 1) \div 3) + 4]) % 256]

\* the input may not end inside a quad unless a '=' ended it
DecodeUpTo(t, stops) ==
    IF stops = {}
    THEN IF Len(SelectSeq(t, IsData)) % 4 # 0 THEN B64Error
         ELSE [ok |-> TRUE, bytes |-> Quads(SelectSeq(t, IsData))]
    ELSE [ok |-> TRUE,
          bytes |-> Quads(SelectSeq(SubSeq(t, 1, Least(stops) - 1), IsData))]

Decode(t) == DecodeUpTo(t, Stops(t))

\* binascii.a2b_base64 in its default non-strict mode: characters outside
\* the alphabet are skipped, a '=' that does not end the input is skipped
a2b_base64(ascii) == Decode(SelectSeq(ascii, NotJunk))

\* base64.b64decode(x): x is a text field [kind, chars]; anything that is not
\* a string raises TypeError, reported here as the error outcome
b64decode(x) ==
    IF x.kind # "str" THEN B64Error
    ELSE a2b_base64(x.chars)

\* base64.b64encode(bytes): 4 characters for every 3 bytes, the last group
\* padded with '='
b64encode(b) ==
    LET n == Len(b)
        byte(i) == IF i <= n THEN b[i] ELSE 0
        char(c) == LET k == 3 * ((c - 1) \div 4) IN
                   CASE (c - 1) % 4 = 0 -> byte(k + 1) \div 4
                     [] (c - 1) % 4 = 1 ->
                          (byte(k + 1) % 4) * 16 + byte(k + 2) \div 16
                     [] (c - 1) % 4 = 2 ->
                          IF k + 2 > n THEN Pad
                          ELSE (byte(k + 2) % 16) * 4 + byte(k + 3) \div 64
                     [] OTHER ->
                          IF k + 3 > n THEN Pad ELSE byte(k + 3) % 64
    IN  [c \in 1..(4 * ((n + 2) \div 3)) |-> char(c)]

Str(chars) == [kind |-> "str", chars |-> chars]

NonStr == [kind |-> "nonstr", chars |-> << >>]

(***************************************************************************)
(* LoRaWAN frame parsers                                                   *)
(***************************************************************************)

\* a faulty parse_lorawan_packet: the length test is off by one (< 11)
dl_parse_lorawan_packet_min11(payload_b64) ==
    LET d == b64decode(payload_b64)
        packet_bytes == d.bytes
    IN  IF ~d.ok THEN None
        ELSE IF Len(packet_bytes) < 11 THEN None
        ELSE LET mhdr     == At(packet_bytes, 0)
                 msg_type == (mhdr \div 32) % 8
                 fctrl    == At(packet_bytes, 5)
                 hasport  == fctrl % 16 = 0 /\ Len(packet_bytes) > 12
             IN  IF msg_type \notin {2, 4} THEN None
                 ELSE [none          |-> FALSE,
                       mhdr          |-> mhdr,
                       msg_type      |-> msg_type,
                       dev_addr      |-> Reverse(PySlice(packet_bytes, 1, 5)),
                       fctrl         |-> fctrl,
                       fcnt          |-> FromBytesLittle(PySlice(packet_bytes, 6, 8)),
                       fport         |-> IF hasport THEN At(packet_bytes, 8) ELSE NoneVal,
                       payload_start |-> IF hasport THEN 9 ELSE 8,
                       packet_bytes  |-> packet_bytes]

\* a faulty parse_lorawan_packet: FOptsLen is not looked at
dl_parse_lorawan_packet_anyfctrl(payload_b64) ==
    LET d == b64decode(payload_b64)
        packet_bytes == d.bytes
    IN  IF ~d.ok THEN None
        ELSE IF Len(packet_bytes) < 12 THEN None
        ELSE LET mhdr     == At(packet_bytes, 0)
                 msg_type == (mhdr \div 32) % 8
                 fctrl    == At(packet_bytes, 5)
                 hasport  == Len(packet_bytes) > 12
             IN  IF msg_type \notin {2, 4} THEN None
                 ELSE [none          |-> FALSE,
                       mhdr          |-> mhdr,
                       msg_type      |-> msg_type,
                       dev_addr      |-> Reverse(PySlice(packet_bytes, 1, 5)),
                       fctrl         |-> fctrl,
                       fcnt          |-> FromBytesLittle(PySlice(packet_bytes, 6, 8)),
                       fport         |-> IF hasport THEN At(packet_bytes, 8) ELSE NoneVal,
                       payload_start |-> IF hasport THEN 9 ELSE 8,
                       packet_bytes  |-> packet_bytes]

\* decrypt_lora.py parse_lorawan_packet
dl_parse_lorawan_packet(payload_b64) ==
    LET d == b64decode(payload_b64)
        packet_bytes == d.bytes
    IN  IF ~d.ok THEN None
        ELSE IF Len(packet_bytes) < 12 THEN None
        ELSE LET mhdr     == At(packet_bytes, 0)
                 msg_type == (mhdr \div 32) % 8
                 fctrl    == At(packet_bytes, 5)
                 hasport  == fctrl % 16 = 0 /\ Len(packet_bytes) > 12
             IN  IF msg_type \notin {2, 4} THEN None
                 ELSE [none          |-> FALSE,
                       mhdr          |-> mhdr,
                       msg_type      |-> msg_type,
                       dev_addr      |-> Reverse(PySlice(packet_bytes, 1, 5)),
                       fctrl         |-> fctrl,
                       fcnt          |-> FromBytesLittle(PySlice(packet_bytes, 6, 8)),
                       fport         |-> IF hasport THEN At(packet_bytes, 8) ELSE NoneVal,
                       payload_start |-> IF hasport THEN 9 ELSE 8,
                       packet_bytes  |-> packet_bytes]

\* a faulty parse_lorawan_packet: a port is taken from a 12-byte frame too
rak_parse_lorawan_packet_port12(payload_b64) ==
    LET d == b64decode(payload_b64)
        packet_bytes == d.bytes
    IN  IF ~d.ok THEN None
        ELSE IF Len(packet_bytes) < 12 THEN None
        ELSE LET mhdr     == At(packet_bytes, 0)
                 msg_type == (mhdr \div 32) % 8
                 fctrl    == At(packet_bytes, 5)
                 hasport  == fctrl % 16 = 0 /\ Len(packet_bytes) >= 12
             IN  IF msg_type \notin {2, 4} THEN None
                 ELSE [none          |-> FALSE,
                       mhdr          |-> mhdr,
                       msg_type      |-> msg_type,
                       dev_addr      |-> Reverse(PySlice(packet_bytes, 1, 5)),
                       fctrl         |-> fctrl,
                       fcnt          |-> FromBytesLittle(PySlice(packet_bytes, 6, 8)),
                       fport         |-> IF hasport THEN At(packet_bytes, 8) ELSE NoneVal,
                       payload_start |-> IF hasport THEN 9 ELSE 8,
                       packet_bytes  |-> packet_bytes]

\* rak_signal_monitor.py LoRaSignalMonitor.parse_lorawan_packet
rak_parse_lorawan_packet(payload_b64) ==
    LET d == b64decode(payload_b64)
        packet_bytes == d.bytes
    IN  IF ~d.ok THEN None
        ELSE IF Len(packet_bytes) < 12 THEN None
        ELSE LET mhdr     == At(packet_bytes, 0)
                 msg_type == (mhdr \div 32) % 8
                 fctrl    == At(packet_bytes, 5)
                 hasport  == fctrl % 16 = 0 /\ Len(packet_bytes) > 12
             IN  IF msg_type \notin {2, 4} THEN None
                 ELSE [none          |-> FALSE,
                       mhdr          |-> mhdr,
                       msg_type      |-> msg_type,
                       dev_addr      |-> Reverse(PySlice(packet_bytes, 1, 5)),
                       fctrl         |-> fctrl,
                       fcnt          |-> FromBytesLittle(PySlice(packet_bytes, 6, 8)),
                       fport         |-> IF hasport THEN At(packet_bytes, 8) ELSE NoneVal,
                       payload_start |-> IF hasport THEN 9 ELSE 8,
                       packet_bytes  |-> packet_bytes]

\* v4_lorawan_monitor.py V4LoRaWANMonitor.parse_lorawan_frame: no message
\* type test, and the byte after the 8-byte header is always taken as FPort
v4_parse_lorawan_frame(data_b64) ==
    LET d == b64decode(data_b64)
        packet_bytes == d.bytes
    IN  IF ~d.ok THEN None
        ELSE IF Len(packet_bytes) < 12 THEN None
        ELSE LET hasport == Len(packet_bytes) > 8
             IN  [none          |-> FALSE,
                  mhdr          |-> At(packet_bytes, 0),
                  msg_type      |-> NoneVal,
                  dev_addr      |-> PySlice(packet_bytes, 1, 5),
                  fctrl         |-> At(packet_bytes, 5),
                  fcnt          |-> FromBytesLittle(PySlice(packet_bytes, 6, 8)),
                  fport         |-> IF hasport THEN At(packet_bytes, 8) ELSE NoneVal,
                  payload_start |-> IF hasport THEN 9 ELSE 8,
                  packet_bytes  |-> packet_bytes]

(***************************************************************************)
(* Device filters.  Each returns [match, why, info]: the boolean the        *)
(* source returns, the branch that produced it and the frame it parsed.    *)
(***************************************************************************)
Verdict(m, w, info) == [match |-> m, why |-> w, info |-> info]

\* a faulty check_device_match: the port is not compared
dl_check_device_match_anyport(json_line) ==
    IF json_line.data.kind # "str" THEN Verdict(FALSE, "no_data", None)
    ELSE IF Len(json_line.data.chars) = 0 THEN Verdict(FALSE, "no_data", None)
    ELSE LET packet_info == dl_parse_lorawan_packet(json_line.data) IN
         IF IsNone(packet_info) THEN Verdict(FALSE, "invalid", None)
         ELSE LET fport         == packet_info.fport
                  packet_bytes  == packet_info.packet_bytes
                  payload_start == packet_info.payload_start
              IN  IF Len(packet_bytes) >= payload_start + 4
                  THEN LET payload_length == Len(packet_bytes) - payload_start - 4
                       IN  IF payload_length = 22
                           THEN Verdict(TRUE, "matched", packet_info)
                           ELSE Verdict(FALSE, "rejected", packet_info)
                  ELSE Verdict(FALSE, "too_short", packet_info)

\* decrypt_lora.py check_device_match: the text between '"data":"' and the
\* next quote is the payload; line.data is that text when the line holds one
dl_check_device_match(json_line) ==
    IF json_line.data.kind # "str" THEN Verdict(FALSE, "no_data", None)
    ELSE IF Len(json_line.data.chars) = 0 THEN Verdict(FALSE, "no_data", None)
    ELSE LET packet_info == dl_parse_lorawan_packet(json_line.data) IN
         IF IsNone(packet_info) THEN Verdict(FALSE, "invalid", None)
         ELSE LET fport         == packet_info.fport
                  packet_bytes  == packet_info.packet_bytes
                  payload_start == packet_info.payload_start
              IN  IF Len(packet_bytes) >= payload_start + 4
                  THEN LET payload_length == Len(packet_bytes) - payload_start - 4
                       IN  IF payload_length = 22 /\ fport = 2
                           THEN Verdict(TRUE, "matched", packet_info)
                           ELSE Verdict(FALSE, "rejected", packet_info)
                  ELSE Verdict(FALSE, "too_short", packet_info)

\* rak_signal_monitor.py LoRaSignalMonitor.is_my_device: every frame the
\* parser returns is accepted
rak_is_my_device(packet_info) ==
    IF IsNone(packet_info) THEN Verdict(FALSE, "no_data", None)
    ELSE IF packet_info.data.kind # "str" \/ Len(packet_info.data.chars) = 0
    THEN Verdict(FALSE, "no_data", None)
    ELSE LET lorawan_info == rak_parse_lorawan_packet(packet_info.data) IN
         IF IsNone(lorawan_info) THEN Verdict(FALSE, "invalid", None)
         ELSE Verdict(TRUE, "matched", lorawan_info)

\* a faulty is_v4_device: the port is not compared
v4_is_v4_device_anyport(packet_info) ==
    IF IsNone(packet_info) THEN Verdict(FALSE, "no_data", None)
    ELSE IF packet_info.data.kind # "str" \/ Len(packet_info.data.chars) = 0
    THEN Verdict(FALSE, "no_data", None)
    ELSE LET lorawan_info == v4_parse_lorawan_frame(packet_info.data) IN
         IF IsNone(lorawan_info) THEN Verdict(FALSE, "invalid", None)
         ELSE LET packet_bytes  == lorawan_info.packet_bytes
                  payload_start == lorawan_info.payload_start
              IN  IF Len(packet_bytes) >= payload_start + 4
                  THEN LET payload_length == Len(packet_bytes) - payload_start - 4
                       IN  IF payload_length = 22
                           THEN Verdict(TRUE, "matched", lorawan_info)
                           ELSE Verdict(FALSE, "rejected", lorawan_info)
                  ELSE Verdict(FALSE, "too_short", lorawan_info)

\* a faulty is_v4_device: any payload of 22 bytes or more is accepted
v4_is_v4_device_atleast22(packet_info) ==
    IF IsNone(packet_info) THEN Verdict(FALSE, "no_data", None)
    ELSE IF packet_info.data.kind # "str" \/ Len(packet_info.data.chars) = 0
    THEN Verdict(FALSE, "no_data", None)
    ELSE LET lorawan_info == v4_parse_lorawan_frame(packet_info.data) IN
         IF IsNone(lorawan_info) THEN Verdict(FALSE, "invalid", None)
         ELSE LET packet_bytes  == lorawan_info.packet_bytes
                  fport         == lorawan_info.fport
                  payload_start == lorawan_info.payload_start
              IN  IF Len(packet_bytes) >= payload_start + 4
                  THEN LET payload_length == Len(packet_bytes) - payload_start - 4
                       IN  IF payload_length >= 22 /\ fport = 2
                           THEN Verdict(TRUE, "matched", lorawan_info)
                           ELSE Verdict(FALSE, "rejected", lorawan_info)
                  ELSE Verdict(FALSE, "too_short", lorawan_info)

\* v4_lorawan_monitor.py V4LoRaWANMonitor.is_v4_device
v4_is_v4_device(packet_info) ==
    IF IsNone(packet_info) THEN Verdict(FALSE, "no_data", None)
    ELSE IF packet_info.data.kind # "str" \/ Len(packet_info.data.chars) = 0
    THEN Verdict(FALSE, "no_data", None)
    ELSE LET lorawan_info == v4_parse_lorawan_frame(packet_info.data) IN
         IF IsNone(lorawan_info) THEN Verdict(FALSE, "invalid", None)
         ELSE LET packet_bytes  == lorawan_info.packet_bytes
                  fport         == lorawan_info.fport
                  payload_start == lorawan_info.payload_start
              IN  IF Len(packet_bytes) >= payload_start + 4
                  THEN LET payload_length == Len(packet_bytes) - payload_start - 4
                       IN  IF payload_length = 22 /\ fport = 2
                           THEN Verdict(TRUE, "matched", lorawan_info)
                           ELSE Verdict(FALSE, "rejected", lorawan_info)
                  ELSE Verdict(FALSE, "too_short", lorawan_info)

(***************************************************************************)
(* Telemetry.  A value x / 1000.0 is kept as the exact fraction            *)
(* [num |-> x, den |-> 1000].                                              *)
(***************************************************************************)
Scaled(raw, den) == [num |-> raw, den |-> den]

NoTelemetry ==
    [tier |-> "none", accel |-> << >>, gyro |-> << >>, mag |-> << >>,
     tof |-> << >>, valid |-> << >>]

\* a faulty Triple: the words are read without signed=True
Triple_unsigned(decrypted, off, den) ==
    << Scaled(FromBytesBig(PySlice(decrypted, off, off + 2)), den),
       Scaled(FromBytesBig(PySlice(decrypted, off + 2, off + 4)), den),
       Scaled(FromBytesBig(PySlice(decrypted, off + 4, off + 6)), den) >>

\* the three signed big-endian words starting at byte offset off
Triple(decrypted, off, den) ==
    << Scaled(FromBytesBigSigned(PySlice(decrypted, off, off + 2)), den),
       Scaled(FromBytesBigSigned(PySlice(decrypted, off + 2, off + 4)), den),
       Scaled(FromBytesBigSigned(PySlice(decrypted, off + 4, off + 6)), den) >>

Pair(decrypted, off, den) ==
    << Scaled(FromBytesBigSigned(PySlice(decrypted, off, off + 2)), den),
       Scaled(FromBytesBigSigned(PySlice(decrypted, off + 2, off + 4)), den) >>

\* a faulty ToFmm: the word is read with signed=True
ToFmm_signed(decrypted, off) ==
    LET raw == FromBytesBigSigned(PySlice(decrypted, off, off + 2))
    IN  IF raw # 65535 THEN raw ELSE NoneVal

\* tof_x_mm = tof_x_raw if tof_x_raw != 0xFFFF else None
ToFmm(decrypted, off) ==
    LET raw == FromBytesBig(PySlice(decrypted, off, off + 2))
    IN  IF raw # 65535 THEN raw ELSE NoneVal

\* a faulty sensor data analysis: the partial tier starts above 16 bytes
dl_sensor_data_over16(decrypted) ==
    IF Len(decrypted) >= 22
    THEN LET tof_c_mm == ToFmm(decrypted, 18)
             tof_d_mm == ToFmm(decrypted, 20)
         IN  [tier  |-> "full",
              accel |-> Triple(decrypted, 0, 1000),
              gyro  |-> Triple(decrypted, 6, 10),
              mag   |-> Triple(decrypted, 12, 10),
              tof   |-> << tof_c_mm, tof_d_mm >>,
              valid |-> << tof_c_mm # NoneVal, tof_d_mm # NoneVal >>]
    ELSE IF Len(decrypted) > 16
    THEN [tier  |-> "partial",
          accel |-> Triple(decrypted, 0, 1000),
          gyro  |-> Triple(decrypted, 6, 10),
          mag   |-> Pair(decrypted, 12, 10),
          tof   |-> << >>,
          valid |-> << >>]
    ELSE NoTelemetry

\* decrypt_lora.py decrypt_payload, the sensor data analysis it prints
dl_sensor_data(decrypted) ==
    IF Len(decrypted) >= 22
    THEN LET tof_c_mm == ToFmm(decrypted, 18)
             tof_d_mm == ToFmm(decrypted, 20)
         IN  [tier  |-> "full",
              accel |-> Triple(decrypted, 0, 1000),
              gyro  |-> Triple(decrypted, 6, 10),
              mag   |-> Triple(decrypted, 12, 10),
              tof   |-> << tof_c_mm, tof_d_mm >>,
              valid |-> << tof_c_mm # NoneVal, tof_d_mm # NoneVal >>]
    ELSE IF Len(decrypted) >= 16
    THEN [tier  |-> "partial",
          accel |-> Triple(decrypted, 0, 1000),
          gyro  |-> Triple(decrypted, 6, 10),
          mag   |-> Pair(decrypted, 12, 10),
          tof   |-> << >>,
          valid |-> << >>]
    ELSE NoTelemetry

\* rak_signal_monitor.py decrypt_payload, its sensor_data
rak_sensor_data(decrypted) ==
    IF Len(decrypted) >= 16
    THEN [tier  |-> "partial",
          accel |-> Triple(decrypted, 0, 1000),
          gyro  |-> Triple(decrypted, 6, 10),
          mag   |-> Pair(decrypted, 12, 10),
          tof   |-> << >>,
          valid |-> << >>]
    ELSE NoTelemetry

\* v4_lorawan_monitor.py decrypt_v4_payload, its sensor_data
v4_sensor_data(decrypted) ==
    IF Len(decrypted) >= 22
    THEN LET tof_c_mm == ToFmm(decrypted, 18)
             tof_d_mm == ToFmm(decrypted, 20)
         IN  [tier  |-> "full",
              accel |-> Triple(decrypted, 0, 1000),
              gyro  |-> Triple(decrypted, 6, 10),
              mag   |-> Triple(decrypted, 12, 10),
              tof   |-> << tof_c_mm, tof_d_mm >>,
              valid |-> << tof_c_mm # NoneVal, tof_d_mm # NoneVal >>]
    ELSE NoTelemetry

\* the byte indexes of the slice decrypted[off : off + n]
SliceReads(off, n) == off .. (off + n - 1)

\* a faulty read set: the partial tier reads mag z as well
dl_sensor_reads_magz(decrypted) ==
    IF Len(decrypted) >= 22
    THEN SliceReads(0, 6) \cup SliceReads(6, 6) \cup SliceReads(12, 6)
         \cup SliceReads(18, 2) \cup SliceReads(20, 2)
    ELSE IF Len(decrypted) >= 16
    THEN SliceReads(0, 6) \cup SliceReads(6, 6) \cup SliceReads(12, 6)
    ELSE {}

\* decrypt_lora.py decrypt_payload, the byte indexes its sensor data
\* analysis slices from the buffer
dl_sensor_reads(decrypted) ==
    IF Len(decrypted) >= 22
    THEN SliceReads(0, 6) \cup SliceReads(6, 6) \cup SliceReads(12, 6)
         \cup SliceReads(18, 2) \cup SliceReads(20, 2)
    ELSE IF Len(decrypted) >= 16
    THEN SliceReads(0, 6) \cup SliceReads(6, 6) \cup SliceReads(12, 4)
    ELSE {}

\* rak_signal_monitor.py decrypt_payload, the byte indexes it slices
rak_sensor_reads(decrypted) ==
    IF Len(decrypted) >= 16
    THEN SliceReads(0, 6) \cup SliceReads(6, 6) \cup SliceReads(12, 4)
    ELSE {}

\* v4_lorawan_monitor.py decrypt_v4_payload, the byte indexes it slices
v4_sensor_reads(decrypted) ==
    IF Len(decrypted) >= 22
    THEN SliceReads(0, 6) \cup SliceReads(6, 6) \cup SliceReads(12, 6)
         \cup SliceReads(18, 2) \cup SliceReads(20, 2)
    ELSE {}

(***************************************************************************)
(* Payload decryption.  AES.new(key, AES.MODE_ECB).decrypt is the          *)
(* pycryptodome library: a keyed bijection on 16-byte blocks, so on the    *)
(* ciphertext of an arbitrary frame its result is an arbitrary buffer of   *)
(* the same length.  The buffer is the parameter plain, cut to the length  *)
(* of the data; a length that is no multiple of 16 raises ValueError.      *)
(***************************************************************************)
AesDecrypt(plain, data) ==
    IF Len(data) % 16 # 0 THEN [ok |-> FALSE, bytes |-> << >>]
    ELSE [ok |-> TRUE, bytes |-> SubSeq(plain, 1, Len(data))]

\* what a decryptor returns: success, the error text, the encrypted payload
\* it extracted, the buffer it decrypted and decoded, the bytes it hands
\* back, and the telemetry it decoded
NoDecrypt ==
    [called |-> FALSE, success |-> FALSE, error |-> "", encrypted |-> << >>,
     decrypted |-> << >>, hex |-> << >>, sensor |-> NoTelemetry]

Failure(error) == [NoDecrypt EXCEPT !.called = TRUE, !.error = error]

\* a faulty PadTo16: nothing is appended
PadTo16_unpadded(encrypted_payload) == encrypted_payload

\* if len(padded_data) % 16 != 0: padded_data += b"\x00" * (16 - len % 16)
PadTo16(encrypted_payload) ==
    IF Len(encrypted_payload) % 16 # 0
    THEN encrypted_payload \o Zeros(16 - (Len(encrypted_payload) % 16))
    ELSE encrypted_payload

\* a faulty decrypt_payload: an empty payload is not refused
dl_decrypt_payload_noempty(base64_data, plain) ==
    LET packet_info == dl_parse_lorawan_packet(base64_data) IN
    IF IsNone(packet_info) THEN Failure("Invalid LoRaWAN packet structure")
    ELSE
    LET packet_bytes      == packet_info.packet_bytes
        payload_start     == packet_info.payload_start
        encrypted_payload == PySlice(packet_bytes, payload_start, 0 - 4)
        padded_data       == PadTo16(encrypted_payload)
        d == IF Len(padded_data) >= 32
             THEN AesDecrypt(plain, PySlice(padded_data, 0, 32))
             ELSE AesDecrypt(plain, padded_data)
    IN  IF Len(packet_bytes) < payload_start + 4
        THEN Failure("Packet too short for payload")
        ELSE IF ~d.ok THEN Failure("Decryption error")
        ELSE [called    |-> TRUE,
              success   |-> TRUE,
              error     |-> "",
              encrypted |-> encrypted_payload,
              decrypted |-> d.bytes,
              hex       |-> d.bytes,
              sensor    |-> dl_sensor_data(d.bytes)]

\* decrypt_lora.py decrypt_payload(base64_data, device_matched=True)
dl_decrypt_payload(base64_data, plain) ==
    LET packet_info == dl_parse_lorawan_packet(base64_data) IN
    IF IsNone(packet_info) THEN Failure("Invalid LoRaWAN packet structure")
    ELSE
    LET packet_bytes      == packet_info.packet_bytes
        payload_start     == packet_info.payload_start
        encrypted_payload == PySlice(packet_bytes, payload_start, 0 - 4)
        padded_data       == PadTo16(encrypted_payload)
        d == IF Len(padded_data) >= 32
             THEN AesDecrypt(plain, PySlice(padded_data, 0, 32))
             ELSE AesDecrypt(plain, padded_data)
    IN  IF Len(packet_bytes) < payload_start + 4
        THEN Failure("Packet too short for payload")
        ELSE IF Len(encrypted_payload) = 0
        THEN Failure("No encrypted payload found")
        ELSE IF ~d.ok THEN Failure("Decryption error")
        ELSE [called    |-> TRUE,
              success   |-> TRUE,
              error     |-> "",
              encrypted |-> encrypted_payload,
              decrypted |-> d.bytes,
              hex       |-> d.bytes,
              sensor    |-> dl_sensor_data(d.bytes)]

\* rak_signal_monitor.py LoRaSignalMonitor.decrypt_payload
rak_decrypt_payload(data_b64, crypto, plain) ==
    IF ~crypto THEN Failure("Crypto library not available")
    ELSE
    LET lorawan_info == rak_parse_lorawan_packet(data_b64) IN
    IF IsNone(lorawan_info) THEN Failure("Invalid LoRaWAN packet structure")
    ELSE
    LET packet_bytes      == lorawan_info.packet_bytes
        payload_start     == lorawan_info.payload_start
        encrypted_payload == PySlice(packet_bytes, payload_start, 0 - 4)
        padded_data       == PadTo16(encrypted_payload)
        d == AesDecrypt(plain, PySlice(padded_data, 0, 16))
    IN  IF Len(packet_bytes) < payload_start + 4
        THEN Failure("Packet too short for payload")
        ELSE IF Len(encrypted_payload) = 0
        THEN Failure("No encrypted payload found")
        ELSE IF ~d.ok THEN Failure("Decryption error")
        ELSE [called    |-> TRUE,
              success   |-> TRUE,
              error     |-> "",
              encrypted |-> encrypted_payload,
              decrypted |-> d.bytes,
              hex       |-> d.bytes,
              sensor    |-> rak_sensor_data(d.bytes)]

\* v4_lorawan_monitor.py V4LoRaWANMonitor.decrypt_v4_payload
v4_decrypt_v4_payload(packet_info, crypto, plain) ==
    IF ~crypto THEN Failure("Crypto library not available")
    ELSE
    LET lorawan_info == v4_parse_lorawan_frame(packet_info.data) IN
    IF IsNone(lorawan_info) THEN Failure("Invalid LoRaWAN frame")
    ELSE
    LET packet_bytes      == lorawan_info.packet_bytes
        payload_start     == lorawan_info.payload_start
        encrypted_payload == PySlice(packet_bytes, payload_start, 0 - 4)
        padded_data       == encrypted_payload
                             \o Zeros(32 - Len(encrypted_payload))
        d == AesDecrypt(plain, padded_data)
    IN  IF Len(packet_bytes) < payload_start + 4
        THEN Failure("Packet too short")
        ELSE IF Len(encrypted_payload) # 22
        THEN Failure("Invalid payload size")
        ELSE IF ~d.ok THEN Failure("Decryption error")
        ELSE [called    |-> TRUE,
              success   |-> TRUE,
              error     |-> "",
              encrypted |-> encrypted_payload,
              decrypted |-> d.bytes,
              hex       |-> PySlice(d.bytes, 0, 22),
              sensor    |-> v4_sensor_data(d.bytes)]

(***************************************************************************)
(* Input lines.  A line is kept by what the classifiers can see of it:     *)
(*   shape  "json"   the text {"rxpk":[...]} occurs in it                  *)
(*          "bsjson" the text \{"rxpk":\.\} occurs in it                   *)
(*          "csv"    it starts with RXPK,                                  *)
(*          "rawdbg" it holds INFO: \R freq=.. rssi=.. snr=.. size=..      *)
(*                   data=<hex>                                            *)
(*          "rawinfo" it holds INFO: [RAW] freq=.. rssi=.. snr=.. size=..  *)
(*                   data=<hex>                                            *)
(*          "text"   none of these                                         *)
(*   js     for "json": "bad" (json.loads fails), "empty" (rxpk is []),    *)
(*          "nonobj" (rxpk[0] is no object), "obj"                         *)
(*   data   the data string of the line (rxpk[0].data, the text after      *)
(*          "data":", or the tenth RXPK field)                             *)
(*   rssi, lsnr   the JSON values of rxpk[0]                               *)
(*   nfields, nums_ok, hex   of an RXPK or INFO line: the number of        *)
(*          comma-separated fields, whether its numeric fields parse,      *)
(*          and the nibbles of its hex payload                             *)
(***************************************************************************)
Num(n) == [kind |-> "num", val |-> n]

NonNum == [kind |-> "nonnum", val |-> 0]

NoNum == [kind |-> "missing", val |-> 0]

NoText == [kind |-> "missing", chars |-> << >>]

Line(shape, js, data, rssi, lsnr, nfields, nums_ok, hex) ==
    [shape |-> shape, js |-> js, data |-> data, rssi |-> rssi, lsnr |-> lsnr,
     nfields |-> nfields, nums_ok |-> nums_ok, hex |-> hex]

JsonLine(js, data, rssi, lsnr) ==
    Line("json", js, data, rssi, lsnr, 0, TRUE, << >>)

TextLine(data) == Line("text", "na", data, NoNum, NoNum, 0, TRUE, << >>)

(***************************************************************************)
(* Line classifiers.  A classifier returns a reception record, None        *)
(* (NoMatch) or lets an exception escape (Raises).                         *)
(***************************************************************************)
NoMatch ==
    [none |-> TRUE, raised |-> FALSE, rssi |-> Num(0), lsnr |-> Num(0),
     data |-> Str(<< >>), packet_type |-> ""]

Raises == [NoMatch EXCEPT !.raised = TRUE]

\* rxpk.get(key, default)
Get(field, default) == IF field.kind = "missing" THEN default ELSE field

\* rak_signal_monitor.py LoRaSignalMonitor.parse_lora_packet: only
\* JSONDecodeError, KeyError and IndexError are caught, so rxpk.get on a
\* first element that is no object escapes as AttributeError
rak_parse_lora_packet(line) ==
    IF line.shape # "json" THEN NoMatch
    ELSE IF line.js = "bad" THEN NoMatch
    ELSE IF line.js = "empty" THEN NoMatch
    ELSE IF line.js = "nonobj" THEN Raises
    ELSE [none        |-> FALSE,
          raised      |-> FALSE,
          rssi        |-> Get(line.rssi, Num(0)),
          lsnr        |-> Get(line.lsnr, Num(0)),
          data        |-> Get(line.data, Str(<< >>)),
          packet_type |-> ""]

\* v4_lorawan_monitor.py V4LoRaWANMonitor.parse_lora_packet
v4_parse_lora_packet(line) ==
    IF line.shape # "json" THEN NoMatch
    ELSE IF line.js = "bad" THEN NoMatch
    ELSE IF line.js = "empty" THEN NoMatch
    ELSE IF line.js = "nonobj" THEN Raises
    ELSE [none        |-> FALSE,
          raised      |-> FALSE,
          rssi        |-> Get(line.rssi, Num(0)),
          lsnr        |-> Get(line.lsnr, Num(0)),
          data        |-> Get(line.data, Str(<< >>)),
          packet_type |-> ""]

\* bytes.fromhex(h): an odd number of digits raises ValueError
fromhex(h) == [i \in 1..(Len(h) \div 2) |-> 16 * h[2 * i - 1] + h[2 * i]]

\* Old/raw_lora_capture.py RawLoRaCapture.parse_raw_lora_packet: the JSON
\* pattern is written with doubled backslashes, so what it matches starts
\* with a backslash and json.loads always fails on it; the debug pattern is
\* written the same way, so it matches INFO: \R (a backslash and one of
\* R, A, W, \) and not INFO: [RAW]
raw_parse_raw_lora_packet(line) ==
    IF line.shape = "bsjson" THEN NoMatch
    ELSE IF line.shape = "csv" /\ line.nfields >= 10
    THEN IF ~line.nums_ok THEN NoMatch
         ELSE [none        |-> FALSE,
               raised      |-> FALSE,
               rssi        |-> line.rssi,
               lsnr        |-> line.lsnr,
               data        |-> line.data,
               packet_type |-> "raw_lora"]
    ELSE IF line.shape = "rawdbg"
    THEN IF ~line.nums_ok \/ Len(line.hex) % 2 # 0 THEN NoMatch
         ELSE [none        |-> FALSE,
               raised      |-> FALSE,
               rssi        |-> line.rssi,
               lsnr        |-> line.lsnr,
               data        |-> Str(b64encode(fromhex(line.hex))),
               packet_type |-> "raw_debug"]
    ELSE NoMatch

(***************************************************************************)
(* Signal quality                                                          *)
(***************************************************************************)

\* a faulty estimate_distance: the first comparison is >=
estimate_distance_ge(rssi) ==
    IF rssi >= 0 - 50 THEN "< 100m"
    ELSE IF rssi > 0 - 80 THEN "100m - 1km"
    ELSE IF rssi > 0 - 100 THEN "1km - 5km"
    ELSE IF rssi > 0 - 120 THEN "5km - 15km"
    ELSE "> 15km"

\* estimate_distance(rssi), the same in the three monitors
estimate_distance(rssi) ==
    IF rssi > 0 - 50 THEN "< 100m"
    ELSE IF rssi > 0 - 80 THEN "100m - 1km"
    ELSE IF rssi > 0 - 100 THEN "1km - 5km"
    ELSE IF rssi > 0 - 120 THEN "5km - 15km"
    ELSE "> 15km"

NoQuality ==
    [raised |-> FALSE, signal_quality |-> "", snr_quality |-> "",
     distance_estimate |-> ""]

\* analyze_signal_quality(packet_info), the same in the three monitors:
\* comparing a value that is no number with an int raises TypeError
analyze_signal_quality(packet_info) ==
    IF packet_info.rssi.kind # "num" \/ packet_info.lsnr.kind # "num"
    THEN [NoQuality EXCEPT !.raised = TRUE]
    ELSE LET rssi == packet_info.rssi.val
             lsnr == packet_info.lsnr.val
         IN  [raised |-> FALSE,
              signal_quality |->
                  IF rssi > 0 - 80 THEN "Excellent"
                  ELSE IF rssi > 0 - 100 THEN "Good"
                  ELSE IF rssi > 0 - 120 THEN "Fair"
                  ELSE "Poor",
              snr_quality |->
                  IF lsnr > 5 THEN "Excellent"
                  ELSE IF lsnr > 0 THEN "Good"
                  ELSE IF lsnr > 0 - 10 THEN "Fair"
                  ELSE "Poor",
              distance_estimate |-> estimate_distance(rssi)]

(***************************************************************************)
(* Old/raw_lora_capture.py: the Sensorite filter and packet decoder        *)
(***************************************************************************)
DEVICE_ID == 21331

EXPECTED_PACKET_SIZE == 26

\* RawLoRaCapture.is_sensorite_packet
raw_is_sensorite_packet(packet_info) ==
    IF IsNone(packet_info) THEN Verdict(FALSE, "no_data", None)
    ELSE IF packet_info.data.kind # "str" \/ Len(packet_info.data.chars) = 0
    THEN Verdict(FALSE, "no_data", None)
    ELSE LET d == b64decode(packet_info.data)
             packet_bytes == d.bytes
             info == [None EXCEPT !.packet_bytes = packet_bytes]
         IN  IF ~d.ok THEN Verdict(FALSE, "invalid", None)
             ELSE IF Len(packet_bytes) # EXPECTED_PACKET_SIZE
             THEN Verdict(FALSE, "rejected", info)
             ELSE IF At(packet_bytes, 0) * 256 + At(packet_bytes, 1) = DEVICE_ID
             THEN Verdict(TRUE, "matched", info)
             ELSE Verdict(FALSE, "rejected", info)

\* RawLoRaCapture.parse_sensorite_data
raw_parse_sensorite_data(data_b64) ==
    LET d == b64decode(data_b64)
        packet_bytes == d.bytes
    IN  IF ~d.ok THEN Failure("Invalid base64")
        ELSE IF Len(packet_bytes) # EXPECTED_PACKET_SIZE
        THEN Failure("Invalid packet size")
        ELSE LET tof_c_mm == ToFmm(packet_bytes, 22)
                 tof_d_mm == ToFmm(packet_bytes, 24)
             IN  [called    |-> TRUE,
                  success   |-> TRUE,
                  error     |-> "",
                  encrypted |-> << >>,
                  decrypted |-> packet_bytes,
                  hex       |-> packet_bytes,
                  sensor    |->
                      [tier  |-> "full",
                       accel |-> Triple(packet_bytes, 4, 1000),
                       gyro  |-> Triple(packet_bytes, 10, 10),
                       mag   |-> Triple(packet_bytes, 16, 10),
                       tof   |-> << tof_c_mm, tof_d_mm >>,
                       valid |-> << tof_c_mm # NoneVal, tof_d_mm # NoneVal >>]]

(***************************************************************************)
(* decrypt_lora.py reads the payload straight from the line: a line that   *)
(* holds "data":" is a packet and the text up to the next quote is its     *)
(* payload.                                                                *)
(***************************************************************************)
dl_data_line(line) ==
    IF line.data.kind # "str" THEN NoMatch
    ELSE [none        |-> FALSE,
          raised      |-> FALSE,
          rssi        |-> Get(line.rssi, Num(0)),
          lsnr        |-> Get(line.lsnr, Num(0)),
          data        |-> line.data,
          packet_type |-> ""]

(***************************************************************************)
(* Inputs.  A frame is built from its length, MHDR, FCtrl, the byte at     *)
(* index 8 and a variant that picks DevAddr, FCnt, payload and MIC bytes.  *)
(***************************************************************************)
FrameBytes(len, mhdr, fctrl, b8, v) ==
    [i \in 1..len |->
        CASE i = 1      -> mhdr
          [] i \in 2..5 -> IF v = 0 THEN i - 1 ELSE 256 - 17 * (i - 1)
          [] i = 6      -> fctrl
          [] i = 7      -> IF v = 0 THEN 5 ELSE 52
          [] i = 8      -> IF v = 0 THEN 0 ELSE 18
          [] i = 9      -> b8
          [] OTHER      -> IF v = 0 THEN (7 * i) % 256 ELSE 255 - i]

FrameLine(len, mhdr, fctrl, b8, v) ==
    JsonLine("obj", Str(b64encode(FrameBytes(len, mhdr, fctrl, b8, v))),
             Num(0 - 45), Num(8))

\* the same line with the last character of its base64 text lost
Chopped(l) ==
    [l EXCEPT !.data = Str(SubSeq(l.data.chars, 1, Len(l.data.chars) - 1))]

\* the same line with a character outside the alphabet after the first
Dirty(l) ==
    [l EXCEPT !.data = Str(<< Head(l.data.chars), Junk >> \o Tail(l.data.chars))]

\* MHDR values: unconfirmed uplink, confirmed uplink, join request,
\* unconfirmed downlink
MhdrSamples == {64, 128, 0, 96}

\* FCtrl values: no options, ADR bit alone, one option byte
FCtrlSamples == {0, 128, 1}

\* frame lengths: below the minimum, the minimum, and payloads of
\* 0, 1, 16, 17, 21, 22, 23, 32 and 33 bytes behind a port byte
LenSamples == {0, 11, 12, 13, 14, 28, 29, 30, 34, 35, 36, 45, 46}

FrameLines ==
    { FrameLine(len, mhdr, fctrl, b8, v) :
        len \in LenSamples, mhdr \in MhdrSamples, fctrl \in FCtrlSamples,
        b8 \in {2, 3}, v \in {0, 1} }

OddLines ==
    { JsonLine("obj", NonStr, Num(0 - 45), Num(8)),
      JsonLine("obj", NoText, Num(0 - 45), Num(8)),
      JsonLine("obj", Str(<< 16, Pad, 16, 16 >>), Num(0 - 45), Num(8)),
      JsonLine("bad", NoText, NoNum, NoNum),
      JsonLine("empty", NoText, NoNum, NoNum),
      JsonLine("nonobj", NoText, NoNum, NoNum),
      TextLine(NoText) }

\* rak_signal_monitor.py main, test mode: the "size" the sample line declares
sample_size == 23

\* the sample line of the test mode: "lsnr":8.5 (kept as 8, in the same
\* band), "rssi":-45, "data":"QAEBAgMEBQYHCAkKCwwNDg8="
sample_line ==
    JsonLine("obj",
             Str(<< 16, 0, 4, 1, 0, 32, 12, 4, 1, 16, 24, 7, 2, 0, 36, 10, 2,
                    48, 48, 13, 3, 32, 60, Pad >>),
             Num(0 - 45), Num(8))

\* rssi values on and next to every threshold of the estimator
RssiSamples ==
    { 0 - 130, 0 - 121, 0 - 120, 0 - 119, 0 - 101, 0 - 100, 0 - 99, 0 - 81,
      0 - 80, 0 - 79, 0 - 51, 0 - 50, 0 - 49, 0, 10 }

\* lsnr values on and next to every threshold of the estimator
SnrSamples == { 0 - 20, 0 - 11, 0 - 10, 0 - 9, 0 - 1, 0, 1, 4, 5, 6, 12 }

\* receptions of one accepted frame at these signal levels, and one whose
\* rssi is no number
QualityLines ==
    { [FrameLine(35, 64, 0, 2, 0) EXCEPT !.rssi = Num(r)] : r \in RssiSamples }
    \cup { [FrameLine(35, 64, 0, 2, 0) EXCEPT !.lsnr = Num(q)] : q \in SnrSamples }
    \cup { [FrameLine(35, 64, 0, 2, 0) EXCEPT !.rssi = NonNum] }

\* the inputs of the function calls
CallLines ==
    FrameLines
    \cup { sample_line }
    \cup QualityLines
    \cup { Chopped(l) : l \in { FrameLine(len, 64, 0, 2, 0) : len \in {13, 14, 35} } }
    \cup { Dirty(l) : l \in { FrameLine(len, 64, 0, 2, 0) : len \in {11, 35} } }
    \cup OddLines

\* the inputs of the monitoring loops
LineSamples ==
    { FrameLine(len, mhdr, fctrl, b8, 0) :
        len \in {11, 12, 13, 34, 35, 45}, mhdr \in {64, 0}, fctrl \in {0, 1},
        b8 \in {2, 3} }
    \cup { Chopped(FrameLine(35, 64, 0, 2, 0)), Dirty(FrameLine(35, 64, 0, 2, 0)) }
    \cup { [FrameLine(35, 64, 0, 2, 1) EXCEPT !.rssi = NonNum],
           [FrameLine(35, 64, 0, 2, 1) EXCEPT !.lsnr = NonNum],
           [FrameLine(35, 64, 0, 3, 1) EXCEPT !.rssi = NonNum],
           [FrameLine(35, 64, 0, 2, 1) EXCEPT !.rssi = NoNum],
           TextLine(Str(b64encode(FrameBytes(35, 64, 0, 2, 1)))),
           TextLine(Str(<< >>)) }
    \cup OddLines

\* a 26-byte Sensorite packet: device id, counter, 22 sensor bytes
SensoriteBytes(id_hi, id_lo, len) ==
    [i \in 1..len |->
        CASE i = 1 -> id_hi
          [] i = 2 -> id_lo
          [] OTHER -> (11 * i) % 256]

\* the nibbles of bytes.hex()
tohex(b) ==
    [i \in 1..(2 * Len(b)) |->
        IF i % 2 = 1 THEN b[(i + 1) \div 2] \div 16 ELSE b[i \div 2] % 16]

RawDbgLine(nums_ok, hex) ==
    Line("rawdbg", "na", NoText, Num(0 - 89), Num(8), 0, nums_ok, hex)

\* INFO: [RAW] freq=915.2 rssi=-89 snr=8 size=26 data=<hex>
RawInfoLine(hex) ==
    Line("rawinfo", "na", NoText, Num(0 - 89), Num(8), 0, TRUE, hex)

CsvLine(nfields, nums_ok, data) ==
    Line("csv", "na", data, Num(0 - 89), Num(8), nfields, nums_ok, << >>)

\* the text of the hex digits h, in the numbering of the base64 alphabet:
\* '0'..'9' are its characters 52..61, 'a'..'f' its characters 26..31
HexText(h) == [i \in 1..Len(h) |-> IF h[i] < 10 THEN 52 + h[i] ELSE 16 + h[i]]

\* RXPK,<timestamp>,<freq>,<rssi>,<lsnr>,<sf>,<bw>,<cr>,<size>,<hex payload>
CsvHexLine(hex) ==
    Line("csv", "na", Str(HexText(hex)), Num(0 - 89), Num(8), 10, TRUE, hex)

\* lines only Old/raw_lora_capture.py recognises
RawLineSamples ==
    { RawDbgLine(TRUE, tohex(SensoriteBytes(83, 83, 26))),
      RawDbgLine(TRUE, tohex(SensoriteBytes(83, 84, 26))),
      RawDbgLine(TRUE, tohex(SensoriteBytes(83, 83, 25))),
      RawDbgLine(FALSE, tohex(SensoriteBytes(83, 83, 26))),
      RawDbgLine(TRUE, << 5, 3, 5 >>),
      CsvLine(10, TRUE, Str(b64encode(SensoriteBytes(83, 83, 26)))),
      CsvLine(10, TRUE, Str(b64encode(SensoriteBytes(83, 83, 27)))),
      CsvLine(10, FALSE, Str(b64encode(SensoriteBytes(83, 83, 26)))),
      CsvLine(9, TRUE, Str(<< >>)),
      RawInfoLine(tohex(SensoriteBytes(83, 83, 26))),
      CsvHexLine(tohex(SensoriteBytes(83, 83, 26))),
      Line("bsjson", "na", NoText, NoNum, NoNum, 0, TRUE, << >>) }

(***************************************************************************)
(* AES outputs: 32-byte buffers                                            *)
(***************************************************************************)
PlainConst(hi, lo) == [i \in 1..32 |-> IF i % 2 = 1 THEN hi ELSE lo]

PlainRamp == [i \in 1..32 |-> (37 * (i - 1) + 200) % 256]

\* PlainRamp with the two ToF words replaced
PlainToF(c, d) ==
    [i \in 1..32 |->
        CASE i = 19 -> c \div 256
          [] i = 20 -> c % 256
          [] i = 21 -> d \div 256
          [] i = 22 -> d % 256
          [] OTHER  -> PlainRamp[i]]

ToFWords == {65535, 65534, 0, 255, 65280}

CallPlains ==
    { PlainRamp, PlainConst(0, 0), PlainConst(127, 255), PlainConst(128, 0),
      PlainConst(255, 255), PlainConst(0, 1) }
    \cup { PlainToF(c, d) : c \in ToFWords, d \in ToFWords }

PlainSamples == { PlainRamp, PlainConst(0, 0), PlainToF(65535, 0) }

(***************************************************************************)
(* State                                                                   *)
(***************************************************************************)
VARIABLES
    prog,              \* the script that runs: "dl", "rak", "v4" or "raw"
    show_all,          \* monitor(show_all)
    CRYPTO_AVAILABLE,  \* whether the import of Crypto.Cipher.AES succeeded
    pc,                \* "running"; "eof", "interrupted" or "crashed" after
                       \* the loop; "call", "filtered", "decrypted",
                       \* "analysed" for calls
    packet_count,      \* packet_count
    my_device_count,   \* my_device_count, v4_device_count, sensorite_count
    nlines,            \* lines read so far
    line,              \* the line read last
    packet_info,       \* what the classifier returned for it
    verdict,           \* what the device filter returned for it
    quality,           \* what analyze_signal_quality returned for it
    dec,               \* what the decryptor returned for it
    report,            \* what was printed for it
    stats              \* how many times the statistics were printed

vars ==
    << prog, show_all, CRYPTO_AVAILABLE, pc, packet_count, my_device_count,
       nlines, line, packet_info, verdict, quality, dec, report, stats >>

config == << prog, show_all, CRYPTO_AVAILABLE >>

\* lines one monitoring session reads at most
MaxLines == 2

NoLine == TextLine(NoText)

NoVerdict == Verdict(FALSE, "not_called", None)

\* decrypt_lora.py imports AES unconditionally and has no show_all;
\* raw_lora_capture.py never decrypts
Configs ==
    { << "dl", FALSE, TRUE >> }
    \cup { << p, a, c >> : p \in {"rak", "v4"}, a \in BOOLEAN, c \in BOOLEAN }
    \cup { << "raw", a, TRUE >> : a \in BOOLEAN }

\* a faulty start: one matched reception is counted before any line
InitCommon_one ==
    /\ packet_count = 0
    /\ my_device_count = 1
    /\ nlines = 0
    /\ packet_info = NoMatch
    /\ verdict = NoVerdict
    /\ quality = NoQuality
    /\ dec = NoDecrypt
    /\ report = "none"
    /\ stats = 0

InitCommon ==
    /\ packet_count = 0
    /\ my_device_count = 0
    /\ nlines = 0
    /\ packet_info = NoMatch
    /\ verdict = NoVerdict
    /\ quality = NoQuality
    /\ dec = NoDecrypt
    /\ report = "none"
    /\ stats = 0

\* __init__ and the start of monitor()
Init ==
    /\ \E c \in Configs :
         /\ prog = c[1]
         /\ show_all = c[2]
         /\ CRYPTO_AVAILABLE = c[3]
    /\ pc = "running"
    /\ line = NoLine
    /\ InitCommon

(***************************************************************************)
(* The monitoring loops: one action reads a line and runs the whole body   *)
(* of the loop on it.                                                      *)
(***************************************************************************)

\* an exception leaves monitor(): its finally clause prints the statistics
Crash ==
    /\ pc' = "crashed"
    /\ stats' = stats + 1

Continue ==
    /\ pc' = pc
    /\ stats' = stats

\* a faulty monitor_gateway_output: a reception of another device is
\* counted as one of my device
DlLine_countall ==
    /\ prog = "dl"
    /\ pc = "running"
    /\ nlines < MaxLines
    /\ \E l \in LineSamples :
        LET pi == dl_data_line(l)
            v  == dl_check_device_match(l)
        IN  /\ line' = l
            /\ nlines' = nlines + 1
            /\ packet_info' = pi
            /\ quality' = NoQuality
            /\ Continue
            /\ IF pi.none
               THEN /\ UNCHANGED << packet_count, my_device_count >>
                    /\ verdict' = NoVerdict
                    /\ dec' = NoDecrypt
                    /\ report' = "none"
               ELSE /\ packet_count' = packet_count + 1
                    /\ verdict' = v
                    /\ IF v.match
                       THEN /\ my_device_count' = my_device_count + 1
                            /\ report' = "mine"
                            /\ \E plain \in PlainSamples :
                                 dec' = IF Len(l.data.chars) > 0
                                        THEN dl_decrypt_payload(l.data, plain)
                                        ELSE NoDecrypt
                       ELSE /\ my_device_count' = my_device_count + 1
                            /\ report' = "other"
                            /\ dec' = NoDecrypt
    /\ UNCHANGED config

\* a faulty monitor_gateway_output: the payload of another device is
\* decrypted too
DlLine_decryptall ==
    /\ prog = "dl"
    /\ pc = "running"
    /\ nlines < MaxLines
    /\ \E l \in LineSamples :
        LET pi == dl_data_line(l)
            v  == dl_check_device_match(l)
        IN  /\ line' = l
            /\ nlines' = nlines + 1
            /\ packet_info' = pi
            /\ quality' = NoQuality
            /\ Continue
            /\ IF pi.none
               THEN /\ UNCHANGED << packet_count, my_device_count >>
                    /\ verdict' = NoVerdict
                    /\ dec' = NoDecrypt
                    /\ report' = "none"
               ELSE /\ packet_count' = packet_count + 1
                    /\ verdict' = v
                    /\ IF v.match
                       THEN /\ my_device_count' = my_device_count + 1
                            /\ report' = "mine"
                            /\ \E plain \in PlainSamples :
                                 dec' = IF Len(l.data.chars) > 0
                                        THEN dl_decrypt_payload(l.data, plain)
                                        ELSE NoDecrypt
                       ELSE /\ my_device_count' = my_device_count
                            /\ report' = "other"
                            /\ dec' = dl_decrypt_payload(l.data, PlainRamp)
    /\ UNCHANGED config

\* decrypt_lora.py monitor_gateway_output, one turn of the loop
DlLine ==
    /\ prog = "dl"
    /\ pc = "running"
    /\ nlines < MaxLines
    /\ \E l \in LineSamples :
        LET pi == dl_data_line(l)
            v  == dl_check_device_match(l)
        IN  /\ line' = l
            /\ nlines' = nlines + 1
            /\ packet_info' = pi
            /\ quality' = NoQuality
            /\ Continue
            /\ IF pi.none
               THEN /\ UNCHANGED << packet_count, my_device_count >>
                    /\ verdict' = NoVerdict
                    /\ dec' = NoDecrypt
                    /\ report' = "none"
               ELSE /\ packet_count' = packet_count + 1
                    /\ verdict' = v
                    /\ IF v.match
                       THEN /\ my_device_count' = my_device_count + 1
                            /\ report' = "mine"
                            /\ \E plain \in PlainSamples :
                                 dec' = IF Len(l.data.chars) > 0
                                        THEN dl_decrypt_payload(l.data, plain)
                                        ELSE NoDecrypt
                       ELSE /\ my_device_count' = my_device_count
                            /\ report' = "other"
                            /\ dec' = NoDecrypt
    /\ UNCHANGED config

\* rak_signal_monitor.py LoRaSignalMonitor.monitor, one turn of the loop;
\* print_packet_summary analyses the signal and then decrypts
RakLine ==
    /\ prog = "rak"
    /\ pc = "running"
    /\ nlines < MaxLines
    /\ \E l \in LineSamples :
        LET pi == rak_parse_lora_packet(l)
            v  == rak_is_my_device(pi)
            q  == analyze_signal_quality(pi)
        IN  /\ line' = l
            /\ nlines' = nlines + 1
            /\ packet_info' = pi
            /\ IF pi.raised
               THEN /\ Crash
                    /\ UNCHANGED << packet_count, my_device_count >>
                    /\ verdict' = NoVerdict
                    /\ quality' = NoQuality
                    /\ dec' = NoDecrypt
                    /\ report' = "none"
               ELSE IF pi.none
               THEN /\ Continue
                    /\ UNCHANGED << packet_count, my_device_count >>
                    /\ verdict' = NoVerdict
                    /\ quality' = NoQuality
                    /\ dec' = NoDecrypt
                    /\ report' = "none"
               ELSE /\ packet_count' = packet_count + 1
                    /\ verdict' = v
                    /\ IF v.match
                       THEN /\ my_device_count' = my_device_count + 1
                            /\ quality' = q
                            /\ report' = "summary"
                            /\ IF q.raised
                               THEN /\ Crash
                                    /\ dec' = NoDecrypt
                               ELSE /\ Continue
                                    /\ \E plain \in PlainSamples :
                                         dec' = rak_decrypt_payload(
                                                    pi.data, CRYPTO_AVAILABLE, plain)
                       ELSE /\ my_device_count' = my_device_count
                            /\ Continue
                            /\ quality' = NoQuality
                            /\ dec' = NoDecrypt
                            /\ report' = IF show_all THEN "other" ELSE "none"
    /\ UNCHANGED config

\* v4_lorawan_monitor.py V4LoRaWANMonitor.monitor, one turn of the loop;
\* the payload is decrypted and then print_packet_summary analyses the signal
V4Line ==
    /\ prog = "v4"
    /\ pc = "running"
    /\ nlines < MaxLines
    /\ \E l \in LineSamples :
        LET pi == v4_parse_lora_packet(l)
            v  == v4_is_v4_device(pi)
            q  == analyze_signal_quality(pi)
        IN  /\ line' = l
            /\ nlines' = nlines + 1
            /\ packet_info' = pi
            /\ IF pi.raised
               THEN /\ Crash
                    /\ UNCHANGED << packet_count, my_device_count >>
                    /\ verdict' = NoVerdict
                    /\ quality' = NoQuality
                    /\ dec' = NoDecrypt
                    /\ report' = "none"
               ELSE IF pi.none
               THEN /\ Continue
                    /\ UNCHANGED << packet_count, my_device_count >>
                    /\ verdict' = NoVerdict
                    /\ quality' = NoQuality
                    /\ dec' = NoDecrypt
                    /\ report' = "none"
               ELSE /\ packet_count' = packet_count + 1
                    /\ verdict' = v
                    /\ IF v.match
                       THEN /\ my_device_count' = my_device_count + 1
                            /\ \E plain \in PlainSamples :
                                 dec' = v4_decrypt_v4_payload(
                                            pi, CRYPTO_AVAILABLE, plain)
                            /\ quality' = q
                            /\ report' = "summary"
                            /\ IF q.raised THEN Crash ELSE Continue
                       ELSE /\ my_device_count' = my_device_count
                            /\ Continue
                            /\ quality' = NoQuality
                            /\ dec' = NoDecrypt
                            /\ report' = IF show_all THEN "other" ELSE "none"
    /\ UNCHANGED config

\* Old/raw_lora_capture.py RawLoRaCapture.monitor, one turn of the loop
RawLine ==
    /\ prog = "raw"
    /\ pc = "running"
    /\ nlines < MaxLines
    /\ \E l \in LineSamples \cup RawLineSamples :
        LET pi == raw_parse_raw_lora_packet(l)
            v  == raw_is_sensorite_packet(pi)
            q  == analyze_signal_quality(pi)
        IN  /\ line' = l
            /\ nlines' = nlines + 1
            /\ packet_info' = pi
            /\ IF pi.none
               THEN /\ Continue
                    /\ UNCHANGED << packet_count, my_device_count >>
                    /\ verdict' = NoVerdict
                    /\ quality' = NoQuality
                    /\ dec' = NoDecrypt
                    /\ report' = "none"
               ELSE /\ packet_count' = packet_count + 1
                    /\ verdict' = v
                    /\ IF v.match
                       THEN /\ my_device_count' = my_device_count + 1
                            /\ dec' = raw_parse_sensorite_data(pi.data)
                            /\ quality' = q
                            /\ report' = "summary"
                            /\ IF q.raised THEN Crash ELSE Continue
                       ELSE /\ my_device_count' = my_device_count
                            /\ Continue
                            /\ quality' = NoQuality
                            /\ dec' = NoDecrypt
                            /\ report' = IF show_all THEN "other" ELSE "none"
    /\ UNCHANGED config

\* input() raises EOFError: the three classes break out of the loop and
\* print the statistics, decrypt_lora.py prints "End of input." only
EndOfInput ==
    /\ pc = "running"
    /\ pc' = "eof"
    /\ stats' = IF prog = "dl" THEN stats ELSE stats + 1
    /\ UNCHANGED << config, packet_count, my_device_count, nlines, line,
                    packet_info, verdict, quality, dec, report >>

\* Ctrl+C while the loop waits for a line: the totals are printed
KeyboardInterrupt ==
    /\ pc = "running"
    /\ pc' = "interrupted"
    /\ stats' = stats + 1
    /\ UNCHANGED << config, packet_count, my_device_count, nlines, line,
                    packet_info, verdict, quality, dec, report >>

Next ==
    \/ DlLine
    \/ RakLine
    \/ V4Line
    \/ RawLine
    \/ EndOfInput
    \/ KeyboardInterrupt

Spec == Init /\ [][Next]_vars

(***************************************************************************)
(* The functions called on their own: the input is drawn at the start,     *)
(* the device filter and the decryptor of the script are applied to it.    *)
(* decrypt_lora.py's main() calls decrypt_payload(sys.argv[1]) this way,   *)
(* rak_signal_monitor.py's test mode print_packet_summary.                 *)
(***************************************************************************)
InitCalls ==
    /\ \E c \in Configs :
         /\ c[1] # "raw"
         /\ prog = c[1]
         /\ show_all = FALSE
         /\ CRYPTO_AVAILABLE = c[3]
    /\ pc = "call"
    /\ line \in CallLines
    /\ InitCommon

Unread == << packet_count, my_device_count, nlines, line, quality, report, stats >>

\* check_device_match(line)
DlFilterCall ==
    /\ prog = "dl"
    /\ pc = "call"
    /\ pc' = "filtered"
    /\ packet_info' = dl_data_line(line)
    /\ verdict' = dl_check_device_match(line)
    /\ UNCHANGED << config, Unread, dec >>

\* is_my_device(parse_lora_packet(line))
RakFilterCall ==
    /\ prog = "rak"
    /\ pc = "call"
    /\ ~rak_parse_lora_packet(line).raised
    /\ pc' = "filtered"
    /\ packet_info' = rak_parse_lora_packet(line)
    /\ verdict' = rak_is_my_device(rak_parse_lora_packet(line))
    /\ UNCHANGED << config, Unread, dec >>

\* is_v4_device(parse_lora_packet(line))
V4FilterCall ==
    /\ prog = "v4"
    /\ pc = "call"
    /\ ~v4_parse_lora_packet(line).raised
    /\ pc' = "filtered"
    /\ packet_info' = v4_parse_lora_packet(line)
    /\ verdict' = v4_is_v4_device(v4_parse_lora_packet(line))
    /\ UNCHANGED << config, Unread, dec >>

\* decrypt_payload(base64_data)
DlDecryptCall ==
    /\ prog = "dl"
    /\ pc \in {"call", "filtered"}
    /\ line.data.kind = "str"
    /\ pc' = "decrypted"
    /\ \E plain \in CallPlains : dec' = dl_decrypt_payload(line.data, plain)
    /\ UNCHANGED << config, Unread, packet_info, verdict >>

\* decrypt_payload(packet_info['data'])
RakDecryptCall ==
    /\ prog = "rak"
    /\ pc \in {"call", "filtered"}
    /\ line.shape = "json" /\ line.js = "obj"
    /\ pc' = "decrypted"
    /\ \E plain \in CallPlains :
         dec' = rak_decrypt_payload(rak_parse_lora_packet(line).data,
                                    CRYPTO_AVAILABLE, plain)
    /\ UNCHANGED << config, Unread, packet_info, verdict >>

\* decrypt_v4_payload(packet_info)
V4DecryptCall ==
    /\ prog = "v4"
    /\ pc \in {"call", "filtered"}
    /\ line.shape = "json" /\ line.js = "obj"
    /\ pc' = "decrypted"
    /\ \E plain \in CallPlains :
         dec' = v4_decrypt_v4_payload(v4_parse_lora_packet(line),
                                      CRYPTO_AVAILABLE, plain)
    /\ UNCHANGED << config, Unread, packet_info, verdict >>

\* LoRaSignalMonitor.analyze_signal_quality(parse_lora_packet(line))
RakQualityCall ==
    /\ prog = "rak"
    /\ pc = "call"
    /\ ~rak_parse_lora_packet(line).raised
    /\ ~rak_parse_lora_packet(line).none
    /\ pc' = "analysed"
    /\ packet_info' = rak_parse_lora_packet(line)
    /\ quality' = analyze_signal_quality(rak_parse_lora_packet(line))
    /\ UNCHANGED << config, packet_count, my_device_count, nlines, line,
                    report, stats, verdict, dec >>

\* V4LoRaWANMonitor.analyze_signal_quality(parse_lora_packet(line))
V4QualityCall ==
    /\ prog = "v4"
    /\ pc = "call"
    /\ ~v4_parse_lora_packet(line).raised
    /\ ~v4_parse_lora_packet(line).none
    /\ pc' = "analysed"
    /\ packet_info' = v4_parse_lora_packet(line)
    /\ quality' = analyze_signal_quality(v4_parse_lora_packet(line))
    /\ UNCHANGED << config, packet_count, my_device_count, nlines, line,
                    report, stats, verdict, dec >>

NextCalls ==
    \/ RakQualityCall
    \/ V4QualityCall
    \/ DlFilterCall
    \/ RakFilterCall
    \/ V4FilterCall
    \/ DlDecryptCall
    \/ RakDecryptCall
    \/ V4DecryptCall

SpecCalls == InitCalls /\ [][NextCalls]_vars

(***************************************************************************)
(* Properties                                                              *)
(***************************************************************************)

\* the frame the device filter parsed for the current line
frame == verdict.info

FilterCalled == verdict.why # "not_called"

\* the bytes of the current line's payload text, decoded
LineBytes == b64decode(line.data)

\* frame length - payload offset - 4
PayloadLength(f) == Len(f.packet_bytes) - f.payload_start - 4

\* C1: for every frame its parser returns, check_device_match and
\* is_v4_device return True exactly when the payload length is 22 and the
\* parsed port is 2; every 35-byte frame with MHDR 0x40, FCtrl 0x00 and
\* byte 8 = 0x02 is accepted.
C1_FilterAcceptsIff22OnPort2 ==
    (prog \in {"dl", "v4"} /\ FilterCalled) =>
        /\ ~frame.none =>
             (verdict.match <=> (PayloadLength(frame) = 22 /\ frame.fport = 2))
        /\ ( /\ LineBytes.ok
             /\ Len(LineBytes.bytes) = 35
             /\ At(LineBytes.bytes, 0) = 64
             /\ At(LineBytes.bytes, 5) = 0
             /\ At(LineBytes.bytes, 8) = 2 ) => verdict.match

\* C1 witness: the second DevAddr/FCnt/payload variant of the 35-byte frame
\* is accepted by is_v4_device
C1_Witness ==
    /\ prog = "v4"
    /\ verdict.match
    /\ Len(frame.packet_bytes) = 35
    /\ frame.mhdr = 64
    /\ frame.fcnt = 52 + 256 * 18

\* C2: a reception a device filter accepts has message type 0b010 or 0b100.
C2_AcceptedIsUplink ==
    (prog \in {"dl", "rak", "v4"} /\ verdict.match) =>
        (At(LineBytes.bytes, 0) \div 32) \in {2, 4}

\* C3: is_my_device accepts only frames with a 22-byte payload on port 2.
C3_MyDeviceOnly22OnPort2 ==
    (prog = "rak" /\ verdict.match) =>
        (PayloadLength(frame) = 22 /\ frame.fport = 2)

\* C4: a payload that fails to decode or decodes to fewer than 12 bytes makes
\* every parser return None, so the filter rejects it as invalid and the
\* decryptor fails on it; every frame a parser returns has at least 12 bytes.
C4_ShortPayloadIsMalformed ==
    LET short == ~LineBytes.ok \/ Len(LineBytes.bytes) < 12 IN
    /\ (FilterCalled /\ prog \in {"dl", "rak", "v4"}) =>
         /\ short => (frame.none /\ ~verdict.match)
         /\ ~frame.none => Len(frame.packet_bytes) >= 12
    /\ (dec.called /\ prog \in {"dl", "rak", "v4"} /\ short) => ~dec.success

\* C4 witness: an 11-byte frame went through a filter and was found invalid
C4_Witness ==
    /\ verdict.why = "invalid"
    /\ LineBytes.ok
    /\ Len(LineBytes.bytes) = 11

\* C5: in every frame a parser returns, the port is byte 8 and the payload
\* offset 9 when FOptsLen is 0 and the length exceeds 12, and otherwise the
\* port is absent and the payload offset is 8.
C5_PortAndOffset ==
    (FilterCalled /\ prog \in {"dl", "rak", "v4"} /\ ~frame.none) =>
        IF frame.fctrl % 16 = 0 /\ Len(frame.packet_bytes) > 12
        THEN frame.fport = At(frame.packet_bytes, 8) /\ frame.payload_start = 9
        ELSE frame.fport = NoneVal /\ frame.payload_start = 8

\* the next multiple of 16 at or above n
RoundUp16(n) == 16 * ((n + 15) \div 16)

\* C6: the buffer a decryptor produces is as long as the encrypted payload
\* rounded up to a multiple of 16.
C6_OutputIsPaddedLength ==
    (prog \in {"dl", "rak", "v4"} /\ dec.success) =>
        Len(dec.decrypted) = RoundUp16(Len(dec.encrypted))

\* the completeness tier of a buffer of n bytes
TierOf(n) == IF n >= 22 THEN "full" ELSE IF n >= 16 THEN "partial" ELSE "none"

\* C7: the telemetry a decoder produces is the tier of the length of the
\* buffer it decoded: full with mag x, y, z and both ToF values from 22
\* bytes, accel, gyro and mag x, y without ToF from 16 to 21, none below 16.
C7_TierFollowsBufferLength ==
    (prog \in {"dl", "rak", "v4"} /\ dec.success) =>
        /\ dec.sensor.tier = TierOf(Len(dec.decrypted))
        /\ dec.sensor.tier = "full" =>
             /\ Len(dec.sensor.accel) = 3 /\ Len(dec.sensor.gyro) = 3
             /\ Len(dec.sensor.mag) = 3 /\ Len(dec.sensor.tof) = 2
        /\ dec.sensor.tier = "partial" =>
             /\ Len(dec.sensor.accel) = 3 /\ Len(dec.sensor.gyro) = 3
             /\ Len(dec.sensor.mag) = 2 /\ Len(dec.sensor.tof) = 0
        /\ dec.sensor.tier = "none" =>
             /\ Len(dec.sensor.accel) = 0 /\ Len(dec.sensor.gyro) = 0
             /\ Len(dec.sensor.mag) = 0 /\ Len(dec.sensor.tof) = 0

\* C7 witness: decrypt_lora.py decoded a 16-byte buffer into the partial tier
C7_Witness ==
    /\ prog = "dl"
    /\ dec.success
    /\ Len(dec.decrypted) = 16
    /\ dec.sensor.tier = "partial"

\* the signed 16-bit value of the big-endian word at byte offset off of b
S16(b, off) ==
    LET u == 256 * At(b, off) + At(b, off + 1)
    IN  IF u >= 32768 THEN u - 65536 ELSE u

\* C8: accel x, y, z are the signed big-endian words at 0, 2, 4 over 1000,
\* gyro x, y, z those at 6, 8, 10 over 10, mag x, y, z those at 12, 14, 16
\* over 10, each between -32768 and 32767.
C8_FieldOffsetsAndSign ==
    (prog \in {"dl", "rak", "v4"} /\ dec.success /\ dec.sensor.tier # "none") =>
        LET b == dec.decrypted
            t == dec.sensor
        IN  /\ \A k \in 1..3 :
                 /\ t.accel[k] = [num |-> S16(b, 2 * (k - 1)), den |-> 1000]
                 /\ t.gyro[k] = [num |-> S16(b, 6 + 2 * (k - 1)), den |-> 10]
                 /\ t.accel[k].num \in (0 - 32768)..32767
                 /\ t.gyro[k].num \in (0 - 32768)..32767
            /\ \A k \in 1..Len(t.mag) :
                 /\ t.mag[k] = [num |-> S16(b, 12 + 2 * (k - 1)), den |-> 10]
                 /\ t.mag[k].num \in (0 - 32768)..32767
            /\ (\A i \in 0..5 : At(b, i) = 0) =>
                 \A k \in 1..3 : t.accel[k].num = 0

\* C8 witness: a buffer whose words are 0x8000 decoded to the most negative
\* value in every field of the full tier
C8_Witness ==
    /\ dec.success
    /\ dec.sensor.tier = "full"
    /\ At(dec.decrypted, 0) = 128
    /\ dec.sensor.accel[1].num = 0 - 32768
    /\ dec.sensor.mag[3].num = 0 - 32768

\* C9: in the full tier each ToF distance is absent exactly when its
\* unsigned big-endian word (bytes 18..19, 20..21) is 0xFFFF, and is that
\* word otherwise; the valid flag says which.
C9_ToFAbsentIffFFFF ==
    (prog \in {"dl", "v4"} /\ dec.success /\ dec.sensor.tier = "full") =>
        \A k \in 1..2 :
            LET raw == 256 * At(dec.decrypted, 16 + 2 * k)
                       + At(dec.decrypted, 17 + 2 * k)
            IN  /\ dec.sensor.tof[k] = NoneVal <=> raw = 65535
                /\ raw # 65535 => dec.sensor.tof[k] = raw
                /\ dec.sensor.valid[k] <=> raw # 65535
                /\ dec.sensor.tof[k] >= NoneVal

\* C9 witness: tof_c is out of range while tof_d reads 65534 mm
C9_Witness ==
    /\ dec.success
    /\ dec.sensor.tier = "full"
    /\ dec.sensor.tof = << NoneVal, 65534 >>
    /\ dec.sensor.valid = << FALSE, TRUE >>

\* C10: no input line ends a monitoring loop; a loop is left only on
\* end-of-input or on an external interrupt.
C10_NoLineEndsTheLoop == pc \in {"running", "eof", "interrupted"}

\* the current line is one of the malformed lines a classifier must skip
MalformedLine ==
    \/ line.shape = "json" /\ line.js \in {"bad", "empty", "nonobj"}
    \/ line.shape = "csv" /\ (line.nfields < 10 \/ ~line.nums_ok)
    \/ line.shape = "rawdbg" /\ (~line.nums_ok \/ Len(line.hex) % 2 # 0)

\* C11: the line classifiers never raise: for every line they return a
\* record or None, and None for an empty rxpk array, a JSON decode failure,
\* a first element that is no object, a short or non-numeric RXPK line and
\* an odd-length hex payload.
C11_ClassifiersAreTotal ==
    (prog \in {"rak", "v4", "raw"} /\ nlines > 0) =>
        /\ ~packet_info.raised
        /\ MalformedLine => packet_info.none

\* C12: parse_raw_lora_packet recognises the three documented shapes: a
\* line holding {"rxpk":[...]} with a non-empty array gives a record tagged
\* lorawan, an RXPK, line of at least 10 fields one tagged raw_lora, and an
\* INFO: [RAW] freq=.. rssi=.. snr=.. size=.. data=<hex> line one tagged
\* raw_debug.
C12_RawShapesRecognised ==
    (prog = "raw" /\ nlines > 0) =>
        /\ (line.shape = "json" /\ line.js = "obj") =>
             (~packet_info.none /\ packet_info.packet_type = "lorawan")
        /\ (line.shape = "csv" /\ line.nfields >= 10 /\ line.nums_ok) =>
             (~packet_info.none /\ packet_info.packet_type = "raw_lora")
        /\ (line.shape = "rawinfo" /\ Len(line.hex) % 2 = 0) =>
             (~packet_info.none /\ packet_info.packet_type = "raw_debug")

\* C13: every record parse_raw_lora_packet returns carries its payload as
\* base64: decoding its data field gives the payload bytes that were on the
\* line, for the hex payload of an RXPK, line as for that of a debug line.
C13_RawDataIsBase64OfPayload ==
    (prog = "raw" /\ nlines > 0 /\ ~packet_info.none /\ Len(line.hex) > 0) =>
        b64decode(packet_info.data) = [ok |-> TRUE, bytes |-> fromhex(line.hex)]

C15_QualityBands ==
    (pc = "analysed" /\ ~quality.raised) =>
        LET rssi == packet_info.rssi.val
            snr  == packet_info.lsnr.val
        IN  /\ quality.signal_quality = "Excellent" <=> rssi > 0 - 80
            /\ quality.signal_quality = "Good" <=>
                 (0 - 100 < rssi /\ rssi <= 0 - 80)
            /\ quality.signal_quality = "Fair" <=>
                 (0 - 120 < rssi /\ rssi <= 0 - 100)
            /\ quality.signal_quality = "Poor" <=> rssi <= 0 - 120
            /\ quality.distance_estimate = "< 100m" <=> rssi > 0 - 50
            /\ quality.distance_estimate = "100m - 1km" <=>
                 (0 - 80 < rssi /\ rssi <= 0 - 50)
            /\ quality.distance_estimate = "1km - 5km" <=>
                 (0 - 100 < rssi /\ rssi <= 0 - 80)
            /\ quality.distance_estimate = "5km - 15km" <=>
                 (0 - 120 < rssi /\ rssi <= 0 - 100)
            /\ quality.distance_estimate = "> 15km" <=> rssi <= 0 - 120
            /\ quality.snr_quality = "Excellent" <=> snr > 5
            /\ quality.snr_quality = "Good" <=> (0 < snr /\ snr <= 5)
            /\ quality.snr_quality = "Fair" <=> (0 - 10 < snr /\ snr <= 0)
            /\ quality.snr_quality = "Poor" <=> snr <= 0 - 10

\* C15 witness: rssi -50 was analysed and fell to the band 100m - 1km
C15_Witness ==
    /\ pc = "analysed"
    /\ packet_info.rssi = Num(0 - 50)
    /\ quality.signal_quality = "Excellent"
    /\ quality.distance_estimate = "100m - 1km"

DecryptorFrame ==
    IF prog = "dl" THEN dl_parse_lorawan_packet(line.data)
    ELSE IF prog = "rak"
    THEN rak_parse_lorawan_packet(rak_parse_lora_packet(line).data)
    ELSE v4_parse_lorawan_frame(v4_parse_lora_packet(line).data)

\* bytes[payloadOffset : length - 4] of a parsed frame
EncryptedPayload(f) == PySlice(f.packet_bytes, f.payload_start, 0 - 4)

\* C17: a decryptor given a frame that parses and whose encrypted payload
\* is empty returns a failure with an error, no decrypted buffer and no
\* telemetry; the empty payload is never padded and decrypted.
C17_EmptyPayloadIsAFailure ==
    (/\ prog \in {"dl", "rak", "v4"}
     /\ pc = "decrypted"
     /\ ~IsNone(DecryptorFrame)
     /\ EncryptedPayload(DecryptorFrame) = << >>) =>
        /\ ~dec.success
        /\ dec.error # ""
        /\ dec.decrypted = << >>
        /\ dec.hex = << >>
        /\ dec.sensor = NoTelemetry

\* C17 witness: a 13-byte frame with a port was given to decrypt_payload
\* with the backend present and refused for its empty payload
C17_Witness ==
    /\ prog = "dl"
    /\ pc = "decrypted"
    /\ Len(DecryptorFrame.packet_bytes) = 13
    /\ DecryptorFrame.payload_start = 9
    /\ dec.error = "No encrypted payload found"

\* the byte indexes the telemetry decode of the current program sliced from
\* the buffer it decoded
SensorReads ==
    IF prog = "dl" THEN dl_sensor_reads(dec.decrypted)
    ELSE IF prog = "rak" THEN rak_sensor_reads(dec.decrypted)
    ELSE v4_sensor_reads(dec.decrypted)

\* the buffer b with every byte whose index is outside R set to zero
Masked(b, R) == [i \in 1..Len(b) |-> IF (i - 1) \in R THEN b[i] ELSE 0]

\* the telemetry decode of the current program
SensorData(b) ==
    IF prog = "dl" THEN dl_sensor_data(b)
    ELSE IF prog = "rak" THEN rak_sensor_data(b)
    ELSE v4_sensor_data(b)

\* C18: a telemetry decode reads no byte index at or beyond the length of
\* its buffer, and its result depends on the bytes it reads alone; from a
\* 16-byte buffer it yields accel, gyro and mag x, y, reading bytes 0..15
\* only, without mag z and without ToF.
C18_DecodeReadsInsideBuffer ==
    (prog \in {"dl", "rak", "v4"} /\ dec.success) =>
        /\ SensorReads \subseteq 0 .. (Len(dec.decrypted) - 1)
        /\ dec.sensor = SensorData(Masked(dec.decrypted, SensorReads))
        /\ Len(dec.decrypted) = 16 =>
             /\ dec.sensor.tier = "partial"
             /\ Len(dec.sensor.accel) = 3
             /\ Len(dec.sensor.gyro) = 3
             /\ Len(dec.sensor.mag) = 2
             /\ dec.sensor.tof = << >>
             /\ SensorReads = 0 .. 15

\* C18 witness: decrypt_payload decoded a 16-byte buffer whose last word is
\* not zero
C18_Witness ==
    /\ prog = "dl"
    /\ dec.success
    /\ Len(dec.decrypted) = 16
    /\ dec.sensor.tier = "partial"
    /\ dec.sensor.mag[2].num # 0

\* C19: in every frame a parser returns the last 4 bytes are the MIC alone:
\* the payload offset is at most the length minus 4 and a reported port,
\* byte 8, lies before the MIC.
C19_PortAndPayloadBeforeMIC ==
    (FilterCalled /\ prog \in {"dl", "rak", "v4"} /\ ~frame.none) =>
        /\ frame.payload_start <= Len(frame.packet_bytes) - 4
        /\ frame.fport # NoneVal => 8 < Len(frame.packet_bytes) - 4

\* the classifier of the current monitor returns a record for the line l
Classified(l) ==
    IF prog = "dl" THEN ~dl_data_line(l).none
    ELSE IF prog = "rak"
    THEN ~rak_parse_lora_packet(l).raised /\ ~rak_parse_lora_packet(l).none
    ELSE IF prog = "v4"
    THEN ~v4_parse_lora_packet(l).raised /\ ~v4_parse_lora_packet(l).none
    ELSE ~raw_parse_raw_lora_packet(l).none

\* the device filter of the current monitor accepts the record of the line l
Accepted(l) ==
    IF prog = "dl" THEN dl_check_device_match(l).match
    ELSE IF prog = "rak" THEN rak_is_my_device(rak_parse_lora_packet(l)).match
    ELSE IF prog = "v4" THEN v4_is_v4_device(v4_parse_lora_packet(l)).match
    ELSE raw_is_sensorite_packet(raw_parse_raw_lora_packet(l)).match

\* what one step does to the counters
CountersStep ==
    /\ packet_count' >= packet_count
    /\ my_device_count' >= my_device_count
    /\ nlines' = nlines + 1 =>
         /\ packet_count' =
              packet_count + (IF Classified(line') THEN 1 ELSE 0)
         /\ my_device_count' =
              my_device_count
              + (IF Classified(line') /\ Accepted(line') THEN 1 ELSE 0)
    /\ nlines' = nlines =>
         /\ packet_count' = packet_count
         /\ my_device_count' = my_device_count

\* C20: the counters never decrease; reading one line adds 1 to packet_count
\* exactly when the classifier returned a record and 1 to the matched
\* counter exactly when the filter accepted that record as well; no other
\* step changes a counter.
C20_CountersFollowTheLines == [][CountersStep]_vars

\* C20 witness: two lines were read, both gave a record, the filter accepted
\* one of them
C20_Witness ==
    /\ pc = "running"
    /\ nlines = 2
    /\ packet_count = 2
    /\ my_device_count = 1

\* what one step does to the decryption result
DecryptStep ==
    /\ dec.called => (nlines > 0 /\ Classified(line) /\ Accepted(line))
    /\ nlines' = nlines + 1 =>
         (dec'.called => (Classified(line') /\ Accepted(line')))
    /\ nlines' = nlines => dec' = dec

\* C21: in every monitoring loop a decryption or telemetry decode is the
\* one of the line just read, it happens only when that line was classified
\* and its frame accepted by the device filter, and no step other than the
\* turn of the loop that reads a line decrypts or decodes.
C21_DecryptOnlyAfterAccept == [][DecryptStep]_vars

\* C21 witness: the second line read by the V4 monitor was accepted and
\* decrypted
C21_Witness ==
    /\ prog = "v4"
    /\ nlines = 2
    /\ verdict.match
    /\ dec.called
    /\ dec.success

\* C22: in v4_lorawan_monitor.py, with a cryptographic backend, the
\* decryptor succeeds on every reception the filter accepted: the buffer
\* has 32 bytes and the telemetry is full (accel, gyro, mag x, y, z and both
\* ToF entries); no failure outcome follows an accept.
C22_AcceptImpliesDecryptSuccess ==
    (/\ prog = "v4"
     /\ CRYPTO_AVAILABLE
     /\ FilterCalled
     /\ verdict.match
     /\ dec.called) =>
        /\ dec.success
        /\ dec.error = ""
        /\ Len(dec.decrypted) = 32
        /\ dec.sensor.tier = "full"
        /\ Len(dec.sensor.accel) = 3
        /\ Len(dec.sensor.gyro) = 3
        /\ Len(dec.sensor.mag) = 3
        /\ Len(dec.sensor.tof) = 2
        /\ Len(dec.sensor.valid) = 2

\* C22 witness: is_v4_device accepted a reception and decrypt_v4_payload
\* was then called on it with the backend present
C22_Witness ==
    /\ prog = "v4"
    /\ CRYPTO_AVAILABLE
    /\ pc = "decrypted"
    /\ verdict.match
    /\ dec.success
    /\ Len(dec.encrypted) = 22

\* C23: every frame check_device_match or is_v4_device accepts is 35 bytes
\* long, has payload offset 9 and byte 8 equal to 0x02.
C23_AcceptedFramesAre35Bytes ==
    (prog \in {"dl", "v4"} /\ FilterCalled /\ verdict.match) =>
        /\ ~frame.none
        /\ Len(frame.packet_bytes) = 35
        /\ frame.payload_start = 9
        /\ At(frame.packet_bytes, 8) = 2

\* C23 witness: check_device_match accepted a 35-byte frame
C23_Witness ==
    /\ prog = "dl"
    /\ FilterCalled
    /\ verdict.match
    /\ LineBytes.ok
    /\ Len(LineBytes.bytes) = 35

\* the payload text of the line l decodes to a frame whose FCtrl has a
\* non-zero FOptsLen
HasFOpts(l) ==
    /\ l.data.kind = "str"
    /\ b64decode(l.data).ok
    /\ Len(b64decode(l.data).bytes) >= 6
    /\ At(b64decode(l.data).bytes, 5) % 16 # 0

\* what a turn of monitor_gateway_output does with a frame that has options
FOptsStep ==
    (prog = "dl" /\ nlines' = nlines + 1 /\ HasFOpts(line')) =>
        /\ dl_parse_lorawan_packet(line'.data).fport = NoneVal
        /\ ~dl_check_device_match(line').match
        /\ ~verdict'.match
        /\ my_device_count' = my_device_count

\* C24: in decrypt_lora.py a frame whose FCtrl has a non-zero FOptsLen gets
\* no port from the parser, is not accepted by check_device_match and does
\* not increment my_device_count.
C24_FOptsFrameNeverAccepted == [][FOptsStep]_vars

\* C24 witness: monitor_gateway_output read a 35-byte uplink frame with one
\* option byte and byte 8 = 0x02, and rejected it
C24_Witness ==
    /\ prog = "dl"
    /\ nlines > 0
    /\ HasFOpts(line)
    /\ Len(frame.packet_bytes) = 35
    /\ frame.mhdr = 64
    /\ At(frame.packet_bytes, 8) = 2
    /\ verdict.why = "rejected"
    /\ packet_count > 0
    /\ my_device_count = 0

\* C25: a frame returned by parse_lorawan_packet of decrypt_lora.py or
\* rak_signal_monitor.py is at least payload offset + 4 bytes long, so the
\* too-short branches of check_device_match and of both decrypt_payload are
\* never taken; with parse_lorawan_frame of v4_lorawan_monitor.py the branch
\* is taken exactly for the frames of 12 bytes.
C25_TooShortBranches ==
    /\ (prog \in {"dl", "rak"} /\ ~IsNone(DecryptorFrame)) =>
         Len(DecryptorFrame.packet_bytes) >= DecryptorFrame.payload_start + 4
    /\ prog \in {"dl", "rak"} =>
         /\ verdict.why # "too_short"
         /\ dec.error # "Packet too short for payload"
    /\ (prog = "v4" /\ FilterCalled) =>
         (verdict.why = "too_short" <=>
            (~IsNone(DecryptorFrame) /\ Len(DecryptorFrame.packet_bytes) = 12))
    /\ (prog = "v4" /\ CRYPTO_AVAILABLE /\ dec.called) =>
         (dec.error = "Packet too short" <=>
            (~IsNone(DecryptorFrame) /\ Len(DecryptorFrame.packet_bytes) = 12))

\* C25 witness: is_v4_device and decrypt_v4_payload both took the too-short
\* branch on a 12-byte frame
C25_Witness ==
    /\ prog = "v4"
    /\ pc = "decrypted"
    /\ Len(DecryptorFrame.packet_bytes) = 12
    /\ verdict.why = "too_short"
    /\ dec.error = "Packet too short"

\* C26: in every state of every monitor the matched counter is between 0
\* and the total counter, and both are 0 before the first line is read.
C26_MatchedWithinTotal ==
    /\ 0 <= my_device_count
    /\ my_device_count <= packet_count
    /\ packet_count <= nlines
    /\ nlines = 0 => (packet_count = 0 /\ my_device_count = 0)

\* C26 witness: the rak monitor read two lines and counted both as
\* receptions of its device
C26_Witness ==
    /\ prog = "rak"
    /\ nlines = 2
    /\ packet_count = 2
    /\ my_device_count = 2

\* C27: decrypt_payload of decrypt_lora.py decodes a buffer of exactly 16
\* or 32 bytes: an encrypted payload of 1 to 16 bytes gives the partial
\* tier, one of 17 bytes or more the full tier, and the tier without
\* telemetry never occurs.
C27_TierFollowsPaddedLength ==
    (/\ prog = "dl"
     /\ dec.called
     /\ ~IsNone(DecryptorFrame)
     /\ Len(EncryptedPayload(DecryptorFrame)) >= 1) =>
        /\ dec.success
        /\ dec.encrypted = EncryptedPayload(DecryptorFrame)
        /\ Len(dec.decrypted) \in {16, 32}
        /\ dec.sensor.tier # "none"
        /\ Len(dec.encrypted) <= 16 =>
             (Len(dec.decrypted) = 16 /\ dec.sensor.tier = "partial")
        /\ Len(dec.encrypted) >= 17 =>
             (Len(dec.decrypted) = 32 /\ dec.sensor.tier = "full")

\* C27 witness: a 17-byte payload was decrypted to 32 bytes and decoded as
\* full telemetry
C27_Witness ==
    /\ prog = "dl"
    /\ dec.success
    /\ Len(dec.encrypted) = 17
    /\ Len(dec.decrypted) = 32
    /\ dec.sensor.tier = "full"

\* what the step that ends a monitoring loop looks like
ExitStep ==
    (pc = "running" /\ pc' # "running") =>
        /\ pc' \in {"eof", "interrupted"}
        /\ nlines' = nlines
        /\ packet_count' = packet_count
        /\ my_device_count' = my_device_count
        /\ stats' = IF prog = "dl" /\ pc' = "eof" THEN stats ELSE stats + 1

\* nothing is printed while the loop runs and nothing happens after it ended
OnlyExitPrints ==
    /\ pc = "running" => stats = 0
    /\ pc # "running" => UNCHANGED vars

\* C28: a monitoring loop ends only at end-of-input or on an interrupt,
\* after every line before that point was read and processed, and the three
\* monitor classes then print the statistics exactly once with the counters
\* reached; no loop ends while lines are still to be read.
C28_LoopEndsAtEndOfInput ==
    [][ExitStep /\ OnlyExitPrints]_vars

=============================================================================
